---- MODULE Spec2Model ----
(***************************************************************************)
(* Model of the survey Jetstream consumer (OpenMeet-Team/survey):          *)
(*   - the record decoder and slug generator (internal/consumer/atproto.go)*)
(*   - the cursor store (internal/consumer/cursor.go)                      *)
(*   - the message processor and the reconnecting stream client            *)
(*     (processor.go / jetstream.go, described by the consumer README and  *)
(*     the design specification)                                           *)
(*   - the consumer entry point (cmd/consumer/main.go)                     *)
(* Strings are sequences of one-character strings, so that the decoder and *)
(* the slug generator compute on them as the Go code does.                 *)
(***************************************************************************)
EXTENDS Integers, Sequences, FiniteSets, TLC

(***************************************************************************)
(* Bounds of the model                                                     *)
(***************************************************************************)
\* number of events the upstream feed publishes in one behaviour
MaxEvents == 3
\* number of events applied in one behaviour of the processor-only specification
MaxApply == 3
\* number of consecutive connection errors followed in the reconnect loop
MaxFailures == 8
\* number of cursor store operations in one behaviour, and the largest value set
MaxCursorOps == 4
MaxCursorValue == 3
\* number of questions of a decoded survey record, length of a type string
MaxQuestions == 2
MaxTypeLen == 5
\* number of answers of a decoded response record
MaxAnswers == 2
\* length of a short title, and of what follows the filling of a long one
MaxTitleLen == 4
MaxTailLen == 2
\* the clock and the expiry times of a token, in minutes
MaxNow == 1
MaxExpiresAt == 8

(***************************************************************************)
(* Dynamically typed record values (Go: map[string]interface{})            *)
(***************************************************************************)
Str(s) == [t |-> "str", s |-> s]
Arr(a) == [t |-> "arr", a |-> a]
Obj(o) == [t |-> "obj", o |-> o]
Bool(b) == [t |-> "bool", b |-> b]

\* v, ok := m[f].(string)
IsStr(m, f) == f \in DOMAIN m /\ m[f].t = "str"
IsArr(m, f) == f \in DOMAIN m /\ m[f].t = "arr"
IsObj(m, f) == f \in DOMAIN m /\ m[f].t = "obj"
IsBool(m, f) == f \in DOMAIN m /\ m[f].t = "bool"
\* v, ok := m[f].(string); !ok || v == ""
NonEmptyStr(m, f) == IsStr(m, f) /\ Len(m[f].s) > 0

Min(S) == CHOOSE x \in S : \A y \in S : x <= y
Max(S) == CHOOSE x \in S : \A y \in S : x >= y

(***************************************************************************)
(* atproto.go: stripTokenPrefix                                            *)
(***************************************************************************)
\* strings.Split(tokenType, "#"), parts[len(parts)-1]: the text after the last '#'
StripTokenPrefixBug(tokenType) ==
    LET hashes == {i \in 1..Len(tokenType) : tokenType[i] = "#"}
    IN  IF hashes = {} THEN tokenType
        ELSE SubSeq(tokenType, Min(hashes) + 1, Len(tokenType))

stripTokenPrefix(tokenType) ==
    LET hashes == {i \in 1..Len(tokenType) : tokenType[i] = "#"}
    IN  IF hashes = {} THEN tokenType
        ELSE SubSeq(tokenType, Max(hashes) + 1, Len(tokenType))

(***************************************************************************)
(* atproto.go: parseOption, parseQuestion, ParseSurveyRecord               *)
(* A result is [ok |-> TRUE, ...] or [ok |-> FALSE, err |-> message,       *)
(* q |-> question index, o |-> option index] (Go indexes, from 0; -1 when  *)
(* the message names none).                                                *)
(***************************************************************************)
Err(msg, q, o) == [ok |-> FALSE, err |-> msg, q |-> q, o |-> o]

parseOption(optObj, qIndex, optIndex) ==
    IF ~NonEmptyStr(optObj, "id")
    THEN Err("option: id is required", qIndex, optIndex)
    ELSE IF ~NonEmptyStr(optObj, "text")
    THEN Err("option: text is required", qIndex, optIndex)
    ELSE [ok |-> TRUE, option |-> [ID |-> optObj["id"].s, Text |-> optObj["text"].s]]

\* the result of a loop with early return over already computed results: the
\* first failure, or all the values (field f of each result) in order
LastFailure(results) == results[Max({i \in 1..Len(results) : ~results[i].ok})]
FirstFailure(results) == results[Min({i \in 1..Len(results) : ~results[i].ok})]
AllOk(results) == \A i \in 1..Len(results) : results[i].ok

\* the options loop of parseQuestion, one result per option
OptionResults(optionsRaw, index) ==
    [j \in 1..Len(optionsRaw) |->
        IF optionsRaw[j].t # "obj"
        THEN Err("option: not an object", index, j - 1)
        ELSE parseOption(optionsRaw[j].o, index, j - 1)]

CollectOptions(results) ==
    IF ~AllOk(results) THEN FirstFailure(results)
    ELSE [ok |-> TRUE, options |-> [j \in 1..Len(results) |-> results[j].option]]

parseOptions(qObj, index) ==
    IF IsArr(qObj, "options")
    THEN CollectOptions(OptionResults(qObj["options"].a, index))
    ELSE [ok |-> TRUE, options |-> <<>>]

BuildQuestion(qObj, opts) ==
    IF ~opts.ok THEN opts
    ELSE [ok |-> TRUE,
          question |-> [ID |-> qObj["id"].s,
                        Text |-> qObj["text"].s,
                        Type |-> stripTokenPrefix(qObj["type"].s),
                        Required |-> IF IsBool(qObj, "required")
                                     THEN qObj["required"].b ELSE FALSE,
                        Options |-> opts.options]]

parseQuestion(qObj, index) ==
    IF ~NonEmptyStr(qObj, "id") THEN Err("question: id is required", index, -1)
    ELSE IF ~NonEmptyStr(qObj, "text") THEN Err("question: text is required", index, -1)
    ELSE IF ~NonEmptyStr(qObj, "type") THEN Err("question: type is required", index, -1)
    ELSE BuildQuestion(qObj, parseOptions(qObj, index))

\* the questions loop of ParseSurveyRecord, one result per question
QuestionResults(qs) ==
    [i \in 1..Len(qs) |->
        IF qs[i].t # "obj"
        THEN Err("question is not an object", i - 1, -1)
        ELSE parseQuestion(qs[i].o, i - 1)]

CollectQuestions(record, results) ==
    IF ~AllOk(results) THEN FirstFailure(results)
    ELSE [ok |-> TRUE,
          name |-> record["name"].s,
          description |-> IF IsStr(record, "description")
                          THEN record["description"].s ELSE <<>>,
          def |-> [Questions |-> [i \in 1..Len(results) |-> results[i].question],
                   Anonymous |-> IF IsBool(record, "anonymous")
                                 THEN record["anonymous"].b ELSE FALSE]]

ParseSurveyRecord(record) ==
    IF ~NonEmptyStr(record, "name") THEN Err("survey name is required", -1, -1)
    ELSE IF ~IsArr(record, "questions") \/ Len(record["questions"].a) = 0
    THEN Err("survey must have at least one question", -1, -1)
    ELSE CollectQuestions(record, QuestionResults(record["questions"].a))

(***************************************************************************)
(* atproto.go: ParseResponseRecord, ParseResultsRecord                     *)
(***************************************************************************)
\* the selectedOptions of an answer: present and an array of strings, or the
\* index of the first entry that is not a string
BadOptions(selected) == {j \in 1..Len(selected) : selected[j].t # "str"}

\* one answer of the answers loop
parseAnswer(ansObj, i) ==
    IF ~NonEmptyStr(ansObj, "questionId") THEN Err("answer: questionId is required", i, -1)
    ELSE IF "selectedOptions" \in DOMAIN ansObj /\ ansObj["selectedOptions"].t # "arr"
    THEN Err("answer: selectedOptions must be an array", i, -1)
    ELSE IF "selectedOptions" \in DOMAIN ansObj /\ BadOptions(ansObj["selectedOptions"].a) # {}
    THEN Err("answer option: not a string", i, Min(BadOptions(ansObj["selectedOptions"].a)) - 1)
    ELSE IF "text" \in DOMAIN ansObj /\ ansObj["text"].t # "str"
    THEN Err("answer: text must be a string", i, -1)
    ELSE [ok |-> TRUE,
          questionID |-> ansObj["questionId"].s,
          answer |-> [SelectedOptions |->
                          IF "selectedOptions" \in DOMAIN ansObj
                          THEN [j \in 1..Len(ansObj["selectedOptions"].a) |->
                                   ansObj["selectedOptions"].a[j].s]
                          ELSE <<>>,
                      Text |-> IF "text" \in DOMAIN ansObj THEN ansObj["text"].s ELSE <<>>]]

\* the answers loop of ParseResponseRecord, one result per answer
AnswerResults(as) ==
    [i \in 1..Len(as) |->
        IF as[i].t # "obj"
        THEN Err("answer is not an object", i - 1, -1)
        ELSE parseAnswer(as[i].o, i - 1)]

\* answers[questionID] = answer: a later answer to the same question overwrites
\* an earlier one
CollectAnswers(record, results) ==
    IF ~AllOk(results) THEN FirstFailure(results)
    ELSE [ok |-> TRUE,
          surveyURI |-> record["subject"].o["uri"].s,
          answers |-> [q \in {results[i].questionID : i \in 1..Len(results)} |->
                          results[Max({i \in 1..Len(results) :
                                          results[i].questionID = q})].answer]]

ParseResponseRecordLax(record) ==
    IF ~IsObj(record, "subject") THEN Err("subject is required", -1, -1)
    ELSE IF ~NonEmptyStr(record["subject"].o, "uri") THEN Err("subject.uri is required", -1, -1)
    ELSE IF ~IsArr(record, "answers") THEN Err("answers array is required", -1, -1)
    ELSE CollectAnswers(record, AnswerResults(record["answers"].a))
ParseResponseRecord(record) ==
    IF ~IsObj(record, "subject") THEN Err("subject is required", -1, -1)
    ELSE IF ~NonEmptyStr(record["subject"].o, "uri") THEN Err("subject.uri is required", -1, -1)
    ELSE IF ~IsArr(record, "answers") \/ Len(record["answers"].a) = 0
    THEN Err("answers array is required", -1, -1)
    ELSE CollectAnswers(record, AnswerResults(record["answers"].a))

ParseResultsRecord(record) ==
    IF ~IsObj(record, "subject") THEN Err("subject is required", -1, -1)
    ELSE IF ~NonEmptyStr(record["subject"].o, "uri") THEN Err("subject.uri is required", -1, -1)
    ELSE [ok |-> TRUE, surveyURI |-> record["subject"].o["uri"].s]

(***************************************************************************)
(* atproto.go: GenerateSlugFromTitle                                       *)
(***************************************************************************)
\* maximum slug length (slug[:50])
MaxSlugLen == 50
\* minimum slug length (len(slug) < 3)
MinSlugLen == 3

LowerChars == {"a", "b", "c", "d", "e", "f", "g", "h", "i", "j", "k", "l", "m",
               "n", "o", "p", "q", "r", "s", "t", "u", "v", "w", "x", "y", "z"}
DigitChars == {"0", "1", "2", "3", "4", "5", "6", "7", "8", "9"}
UpperSeq == <<"A", "B", "C", "D", "E", "F", "G", "H", "I", "J", "K", "L", "M",
              "N", "O", "P", "Q", "R", "S", "T", "U", "V", "W", "X", "Y", "Z">>
LowerSeq == <<"a", "b", "c", "d", "e", "f", "g", "h", "i", "j", "k", "l", "m",
              "n", "o", "p", "q", "r", "s", "t", "u", "v", "w", "x", "y", "z">>

\* strings.ToLower, one character
ToLowerChar(c) ==
    IF \E i \in 1..Len(UpperSeq) : UpperSeq[i] = c
    THEN LowerSeq[CHOOSE i \in 1..Len(UpperSeq) : UpperSeq[i] = c]
    ELSE c

ToLower(s) == [i \in 1..Len(s) |-> ToLowerChar(s[i])]

\* slugRegex `[^a-z0-9]+`: a character outside the class
IsAlnum(c) == c \in LowerChars \cup DigitChars

\* slugRegex.ReplaceAllString(slug, "-"): every maximal run of characters outside
\* [a-z0-9] becomes one hyphen
RECURSIVE ReplaceRuns(_)
ReplaceRuns(s) ==
    IF s = <<>> THEN <<>>
    ELSE LET init == ReplaceRuns(SubSeq(s, 1, Len(s) - 1))
             c == s[Len(s)]
         IN  IF IsAlnum(c) THEN Append(init, c)
             ELSE IF Len(s) > 1 /\ ~IsAlnum(s[Len(s) - 1]) THEN init
             ELSE Append(init, "-")

RECURSIVE TrimLeft(_, _)
TrimLeft(s, c) == IF s # <<>> /\ Head(s) = c THEN TrimLeft(Tail(s), c) ELSE s

RECURSIVE TrimRight(_, _)
TrimRight(s, c) ==
    IF s # <<>> /\ s[Len(s)] = c THEN TrimRight(SubSeq(s, 1, Len(s) - 1), c) ELSE s

\* strings.Trim(slug, "-")
Trim(s, c) == TrimRight(TrimLeft(s, c), c)

SurveyPrefix == <<"s", "u", "r", "v", "e", "y", "-">>

\* if len(slug) < 3 { slug = "survey-" + slug }
EnsureMinLength(slug) == IF Len(slug) < MinSlugLen THEN SurveyPrefix \o slug ELSE slug

\* if len(slug) > 50 { slug = slug[:50]; slug = strings.TrimRight(slug, "-") }
TruncateKeepingHyphen(slug) ==
    IF Len(slug) > MaxSlugLen THEN SubSeq(slug, 1, MaxSlugLen) ELSE slug
Truncate(slug) ==
    IF Len(slug) > MaxSlugLen THEN TrimRight(SubSeq(slug, 1, MaxSlugLen), "-") ELSE slug

GenerateSlugFromTitle(title) ==
    Truncate(EnsureMinLength(Trim(ReplaceRuns(ToLower(title)), "-")))

(***************************************************************************)
(* cursor.go: the cursor store.  The table jetstream_cursor is the sequence*)
(* of its rows (the CHECK (id = 1) constraint allows at most one), each    *)
(* row being its time_us value.                                            *)
(***************************************************************************)
\* SELECT time_us FROM jetstream_cursor WHERE id = 1
\* a read that provisions the missing row with 0
GetCursorCreating(table) ==
    IF Len(table) = 0
    THEN [ok |-> TRUE, timeUs |-> 0, err |-> "none", table |-> <<0>>]
    ELSE [ok |-> TRUE, timeUs |-> table[1], err |-> "none", table |-> table]

\* sql.ErrNoRows is "cursor row not found"; table is the table after the query
GetCursor(table) ==
    IF Len(table) = 0
    THEN [ok |-> FALSE, timeUs |-> 0, err |-> "notfound", table |-> table]
    ELSE [ok |-> TRUE, timeUs |-> table[1], err |-> "none", table |-> table]

\* an upsert in place of the UPDATE: inserts the row when it is missing
UpdateCursorInserting(table, timeUs) ==
    [ok |-> TRUE, table |-> <<timeUs>>]

\* UPDATE jetstream_cursor SET time_us = $1 WHERE id = 1; rows == 0 is an error
UpdateCursor(table, timeUs) ==
    IF Len(table) = 0 THEN [ok |-> FALSE, table |-> table]
    ELSE [ok |-> TRUE, table |-> <<timeUs>>]

(***************************************************************************)
(* The stored rows and the events                                          *)
(***************************************************************************)
SurveyCollection == "net.openmeet.survey"
ResponseCollection == "net.openmeet.survey.response"
ResultsCollection == "net.openmeet.survey.results"
OtherCollection == "app.bsky.feed.post"

\* the reference a response or results record carries for a survey record
URIOf(owner, rkey) == <<owner, "/", rkey>>

EmptyStore == [surveys |-> {}, responses |-> {}, results |-> {}]

Slugs(store) == {s.slug : s \in store.surveys}

\* decimal digits of a number n >= 0
RECURSIVE Decimal(_)
Decimal(n) ==
    LET d == <<"0", "1", "2", "3", "4", "5", "6", "7", "8", "9">>
    IN  IF n < 10 THEN <<d[n + 1]>> ELSE Append(Decimal(n \div 10), d[(n % 10) + 1])

\* collision policy: slug, slug-2, slug-3, ... the first one not taken
Suffixed(slug, n) == IF n = 1 THEN slug ELSE slug \o <<"-">> \o Decimal(n)

UniqueSlugNoCheck(slug, taken) == slug

UniqueSlug(slug, taken) ==
    Suffixed(slug, Min({n \in 1..(Cardinality(taken) + 1) : Suffixed(slug, n) \notin taken}))

(***************************************************************************)
(* The message processor: apply(event).  A result is the new store and the *)
(* outcome: "applied", "duplicate" (a vote skipped), "notfound",           *)
(* "unauthorized", "ignored" (unknown collection or operation), or         *)
(* "invalid" (decode/validation error, unresolved subject).                *)
(***************************************************************************)
Result(st, outcome) == [store |-> st, outcome |-> outcome]

\* the stored surveys an event's record key names
SurveysAt(st, rkey) == {s \in st.surveys : s.rkey = rkey}

\* authorization check without the comparison
AuthorizedAny(s, ev) == TRUE

\* authorization check: the event's authenticated repository is the stored owner
Authorized(s, ev) == s.owner = ev.repo

\* an overwrite that derives the slug again from the new title
OverwriteSurveyRegenerating(st, ev, p) ==
    [st EXCEPT !.surveys =
        {IF s.rkey = ev.rkey /\ s.owner = ev.repo
         THEN [s EXCEPT !.title = p.name, !.description = p.description, !.def = p.def,
                        !.slug = UniqueSlug(GenerateSlugFromTitle(p.name), Slugs(st))]
         ELSE s : s \in st.surveys}]

\* overwrite the mutable fields of the targeted survey; the slug is kept
OverwriteSurvey(st, ev, p) ==
    [st EXCEPT !.surveys =
        {IF s.rkey = ev.rkey /\ Authorized(s, ev)
         THEN [s EXCEPT !.title = p.name, !.description = p.description, !.def = p.def]
         ELSE s : s \in st.surveys}]

\* a Create that never finds the survey it repeats
HasSurveyNever(st, ev) == FALSE

\* the owning repository already has a survey at the event's record key
HasSurvey(st, ev) == \E s \in SurveysAt(st, ev.rkey) : s.owner = ev.repo

InsertSurvey(st, ev, p) ==
    [st EXCEPT !.surveys = @ \cup
        {[owner |-> ev.repo, rkey |-> ev.rkey, title |-> p.name,
          description |-> p.description, def |-> p.def,
          slug |-> UniqueSlug(GenerateSlugFromTitle(p.name), Slugs(st))]}]

\* a Create that inserts whatever is stored
SurveyCreateParsedInserting(st, ev, p) ==
    IF ~p.ok THEN Result(st, "invalid")
    ELSE Result(InsertSurvey(st, ev, p), "applied")

\* Create with the decoded record p: a survey the repository already has at that
\* record key is updated instead
SurveyCreateParsed(st, ev, p) ==
    IF ~p.ok THEN Result(st, "invalid")
    ELSE IF HasSurvey(st, ev)
    THEN Result(OverwriteSurvey(st, ev, p), "applied")
    ELSE Result(InsertSurvey(st, ev, p), "applied")

SurveyCreate(st, ev) == SurveyCreateParsed(st, ev, ParseSurveyRecord(ev.record))

\* Update with the decoded record p: authorization first, then the decoding
SurveyUpdateParsed(st, ev, p) ==
    IF SurveysAt(st, ev.rkey) = {} THEN Result(st, "notfound")
    ELSE IF ~\E s \in SurveysAt(st, ev.rkey) : Authorized(s, ev)
    THEN Result(st, "unauthorized")
    ELSE IF ~p.ok THEN Result(st, "invalid")
    ELSE Result(OverwriteSurvey(st, ev, p), "applied")

SurveyUpdate(st, ev) == SurveyUpdateParsed(st, ev, ParseSurveyRecord(ev.record))

\* hard delete of the surveys in gone; the rows that reference them go too
RemoveSurveys(st, gone) ==
    [surveys |-> st.surveys \ gone,
     responses |-> {r \in st.responses : \A s \in gone : r.survey # <<s.owner, s.rkey>>},
     results |-> {r \in st.results : \A s \in gone : r.survey # <<s.owner, s.rkey>>}]

SurveyDelete(st, ev) ==
    IF SurveysAt(st, ev.rkey) = {} THEN Result(st, "applied")
    ELSE IF ~\E s \in SurveysAt(st, ev.rkey) : Authorized(s, ev)
    THEN Result(st, "unauthorized")
    ELSE Result(RemoveSurveys(st, {s \in SurveysAt(st, ev.rkey) : Authorized(s, ev)}),
                "applied")

\* resolve subject.uri to the stored survey it names
ResolveSurvey(st, uri) ==
    {<<s.owner, s.rkey>> : s \in {x \in st.surveys : URIOf(x.owner, x.rkey) = uri}}

\* an insert that does not look for the voter's existing row
StoreResponseAppending(rows, existing, row, operation) == rows \cup {row}

\* Create: a vote of a voter who already has a row for the survey is skipped;
\* Update: the row of the (voter, survey) pair is replaced
StoreResponse(rows, existing, row, operation) ==
    IF operation = "create" /\ existing # {} THEN rows
    ELSE (rows \ existing) \cup {row}

\* the voter is the envelope's repository, never a payload field
ResponseRows(st, voter, id) == {r \in st.responses : r.voter = voter /\ r.survey = id}

\* a voter read from the record body when it names one
VoterFromPayload(ev) ==
    IF NonEmptyStr(ev.record, "did") THEN ev.record["did"].s[1] ELSE ev.repo

\* Voter DID comes from commit.repo, not record body
VoterOf(ev) == ev.repo

ResponseStore(st, ev, p, id) ==
    Result([st EXCEPT !.responses =
               StoreResponse(@, ResponseRows(st, VoterOf(ev), id),
                             [voter |-> VoterOf(ev), survey |-> id, rkey |-> ev.rkey,
                              answers |-> p.answers],
                             ev.operation)],
           IF ev.operation = "create" /\ ResponseRows(st, VoterOf(ev), id) # {}
           THEN "duplicate" ELSE "applied")

ResponseUpsertParsed(st, ev, p) ==
    IF ~p.ok THEN Result(st, "invalid")
    ELSE IF ResolveSurvey(st, p.surveyURI) = {} THEN Result(st, "invalid")
    ELSE ResponseStore(st, ev, p, CHOOSE x \in ResolveSurvey(st, p.surveyURI) : TRUE)

ResponseUpsert(st, ev) == ResponseUpsertParsed(st, ev, ParseResponseRecord(ev.record))

\* the row is found by the deleted record: its repository and record key
ResponseDelete(st, ev) ==
    Result([st EXCEPT !.responses = {r \in @ : ~(r.voter = ev.repo /\ r.rkey = ev.rkey)}],
           "applied")

ResultsCreateParsed(st, ev, p) ==
    IF ~p.ok THEN Result(st, "invalid")
    ELSE IF ResolveSurvey(st, p.surveyURI) = {} THEN Result(st, "invalid")
    ELSE Result([st EXCEPT !.results = @ \cup
                    {[survey |-> CHOOSE x \in ResolveSurvey(st, p.surveyURI) : TRUE,
                      publisher |-> ev.repo]}],
                "applied")

ResultsCreate(st, ev) == ResultsCreateParsed(st, ev, ParseResultsRecord(ev.record))

Apply(st, ev) ==
    IF ev.collection = SurveyCollection
    THEN CASE ev.operation = "create" -> SurveyCreate(st, ev)
           [] ev.operation = "update" -> SurveyUpdate(st, ev)
           [] OTHER -> SurveyDelete(st, ev)
    ELSE IF ev.collection = ResponseCollection
    THEN CASE ev.operation \in {"create", "update"} -> ResponseUpsert(st, ev)
           [] OTHER -> ResponseDelete(st, ev)
    ELSE IF ev.collection = ResultsCollection /\ ev.operation = "create"
    THEN ResultsCreate(st, ev)
    ELSE Result(st, "ignored")

(***************************************************************************)
(* ProcessMessage: one transaction per event.  db is the committed         *)
(* database [store, cursorTable]; an attempt is what the transaction sees  *)
(* after the event was applied (err = "none"), or the error that ends it.  *)
(***************************************************************************)
Cursor(table) == GetCursor(table).timeUs

\* the caller of the cursor store passes the event's sequence whatever the cursor is
NextCursorUnguarded(current, seq) == seq

\* monotonicity is the caller's responsibility: the cursor is never set backwards
NextCursor(current, seq) == IF seq > current THEN seq ELSE current

\* the cursor advance is committed only with a data change
CommitsCursorApplied(outcome) == outcome = "applied"

\* every outcome commits the cursor advance
CommitsCursorAlways(outcome) == TRUE

\* validation error: log + skip, cursor NOT updated; every other outcome commits
\* the (possibly empty) data change and the cursor advance together
CommitsCursor(outcome) == outcome # "invalid"

\* what the storage does to a transaction: nothing, fail the data write, or fail
\* the commit
StorageFailures == {"none", "write", "commit"}

\* the transaction after the event was applied with result r and the cursor
\* written with result uc; err is "none" or what ends the transaction in a
\* rollback: "invalid", "storage" (the write failed) or "commit" (the commit will)
AttemptOf(db, failure, r, uc) ==
    IF failure = "write" \/ (CommitsCursor(r.outcome) /\ ~uc.ok)
    THEN [store |-> db.store, cursorTable |-> db.cursorTable,
          outcome |-> r.outcome, err |-> "storage"]
    ELSE IF ~CommitsCursor(r.outcome)
    THEN [store |-> db.store, cursorTable |-> db.cursorTable,
          outcome |-> r.outcome, err |-> "invalid"]
    ELSE [store |-> r.store, cursorTable |-> uc.table,
          outcome |-> r.outcome, err |-> IF failure = "commit" THEN "commit" ELSE "none"]

Attempt(db, ev, failure) ==
    AttemptOf(db, failure, Apply(db.store, ev),
              UpdateCursor(db.cursorTable, NextCursor(Cursor(db.cursorTable), ev.seq)))

\* tx.Commit(): the transaction's store and cursor become the committed ones
Committed(db, a) == [store |-> a.store, cursorTable |-> a.cursorTable]

\* a cursor written through the database handle instead of the transaction
RolledBackCursorKept(db, a) == [store |-> db.store, cursorTable |-> a.cursorTable]

\* tx.Rollback(): nothing the transaction wrote remains
RolledBack(db, a) == db

Finish(db, a) == IF a.err = "none" THEN Committed(db, a) ELSE RolledBack(db, a)

ProcessMessage(db, ev, failure) == Finish(db, Attempt(db, ev, failure))

(***************************************************************************)
(* Sample payloads                                                         *)
(***************************************************************************)
TitleHi == <<"H", "i", "!">>
TitleHi2 == <<"h", "i", "?", "?">>
TitleTeam == <<"T", "e", "a", "m", " ", "1">>

Question1 ==
    Obj([id |-> Str(<<"q">>), text |-> Str(<<"L", "?">>),
         type |-> Str(<<"n", "s", "#", "s", "i", "n", "g", "l", "e">>),
         options |-> Arr(<<Obj([id |-> Str(<<"y">>), text |-> Str(<<"Y">>)])>>)])

SurveyRec(title) == [name |-> Str(title), questions |-> Arr(<<Question1>>)]
\* a survey record without questions
BadSurveyRec == [name |-> Str(TitleHi)]

ResponseRec(owner, rkey, option) ==
    [subject |-> Obj([uri |-> Str(URIOf(owner, rkey))]),
     answers |-> Arr(<<Obj([questionId |-> Str(<<"q">>),
                            selectedOptions |-> Arr(<<Str(<<option>>)>>)])>>)]
\* the record with one more field, did, naming a repository
WithDid(record, did) ==
    [f \in DOMAIN record \cup {"did"} |-> IF f = "did" THEN Str(<<did>>) ELSE record[f]]

\* a response record without answers
BadResponseRec == [subject |-> Obj([uri |-> Str(URIOf("r1", "k1"))])]

ResultsRec(owner, rkey) == [subject |-> Obj([uri |-> Str(URIOf(owner, rkey))])]

\* a Delete carries no record
NoRecord == [absent |-> Bool(TRUE)]

Event(collection, operation, repo, rkey, record) ==
    [collection |-> collection, operation |-> operation, repo |-> repo,
     rkey |-> rkey, record |-> record]

AtSeq(e, seq) ==
    [collection |-> e.collection, operation |-> e.operation, repo |-> e.repo,
     rkey |-> e.rkey, record |-> e.record, seq |-> seq]

\* the events the upstream feed publishes in the stream specification
StreamMenu ==
    { Event(SurveyCollection, "create", "r1", "k1", SurveyRec(TitleHi)),
      Event(SurveyCollection, "update", "r1", "k1", BadSurveyRec),
      Event(SurveyCollection, "update", "r2", "k1", SurveyRec(TitleTeam)) }

\* the events applied in the processor specification
ApplyMenu ==
    { Event(SurveyCollection, "create", "r1", "k1", SurveyRec(TitleHi)),
      Event(SurveyCollection, "create", "r1", "k1", SurveyRec(TitleTeam)),
      Event(SurveyCollection, "create", "r2", "k1", SurveyRec(TitleHi2)),
      Event(SurveyCollection, "create", "r2", "k2", SurveyRec(TitleHi)),
      Event(SurveyCollection, "create", "r1", "k1", BadSurveyRec),
      Event(SurveyCollection, "update", "r1", "k1", SurveyRec(TitleTeam)),
      Event(SurveyCollection, "update", "r2", "k1", SurveyRec(TitleTeam)),
      Event(SurveyCollection, "update", "r1", "k1", BadSurveyRec),
      Event(SurveyCollection, "delete", "r1", "k1", NoRecord),
      Event(SurveyCollection, "delete", "r2", "k1", NoRecord),
      Event(ResponseCollection, "create", "r2", "k1", ResponseRec("r1", "k1", "y")),
      Event(ResponseCollection, "create", "r2", "k2", ResponseRec("r1", "k1", "n")),
      Event(ResponseCollection, "create", "r2", "k1", ResponseRec("r2", "k1", "y")),
      Event(ResponseCollection, "create", "r2", "k1",
            WithDid(ResponseRec("r1", "k1", "y"), "r1")),
      Event(ResponseCollection, "update", "r2", "k1", ResponseRec("r1", "k1", "n")),
      Event(ResponseCollection, "create", "r2", "k1", BadResponseRec),
      Event(ResponseCollection, "delete", "r2", "k1", NoRecord),
      Event(ResponseCollection, "delete", "r2", "k2", NoRecord),
      Event(ResultsCollection, "create", "r1", "k1", ResultsRec("r1", "k1")),
      Event(OtherCollection, "create", "r1", "k1", NoRecord) }

(***************************************************************************)
(* State                                                                   *)
(***************************************************************************)
VARIABLES
    clientState,    \* the stream client: Disconnected, Connecting, Streaming, Stopped
    cancelled,      \* the consumer's context was cancelled
    mainPc,         \* main: "waiting" in its select, "shutdown" after it, "exited"
    log,            \* the events the upstream feed has published, in sequence order
    connPos,        \* index in log of the next frame of the open connection (0: none)
    request,        \* the subscribe request being made (NoRequest: none)
    store,          \* committed survey, response and results rows
    cursorTable,    \* committed jetstream_cursor table
    tx,             \* the open transaction of the event being processed
    fate,           \* history: per sequence, "new", "applied", or never applied and
                    \*          the last attempt "failed" on the data write or ended
                    \*          "uncommitted" after the cursor write
    hist,           \* history of the processor specification: the applied events
    backoff         \* the reconnect loop's wait: [wait, n, slept, pending]

vars == <<clientState, cancelled, mainPc, log, connPos, request, store,
          cursorTable, tx, fate, hist, backoff>>

Db == [store |-> store, cursorTable |-> cursorTable]

NoTx == [open |-> FALSE]
NoHistory == [n |-> 0, entries |-> <<>>]

NoRequest == [wantedCollections |-> <<>>, cursor |-> <<>>]

\* a request that carries the cursor parameter whatever the cursor is
SubscribeRequestAlways(c) ==
    [wantedCollections |-> <<SurveyCollection, ResponseCollection, ResultsCollection>>,
     cursor |-> <<c>>]

\* the subscribe URL: the repeated wantedCollections parameters and, on resume,
\* the cursor parameter
SubscribeRequest(c) ==
    [wantedCollections |-> <<SurveyCollection, ResponseCollection, ResultsCollection>>,
     cursor |-> IF c # 0 THEN <<c>> ELSE <<>>]

\* the point the feed is asked to resume from (0: none)
RequestedCursor(r) == IF r.cursor = <<>> THEN 0 ELSE r.cursor[1]

\* Exponential backoff (1s -> 60s max)
InitialBackoff == 1
MaxBackoff == 60

\* wait: the next wait in seconds; pending: an error was met and the wait before
\* the reconnect is still to come; history: n, the consecutive errors since the
\* start or the last sustained streaming, and slept, the last wait
NoBackoff == [wait |-> InitialBackoff, n |-> 0, slept |-> 0, pending |-> FALSE]

\* the cursor row is provisioned with 0 by the schema migration
Init ==
    /\ clientState = "Disconnected"
    /\ cancelled = FALSE
    /\ mainPc = "waiting"
    /\ log = <<>>
    /\ connPos = 0
    /\ request = NoRequest
    /\ store = EmptyStore
    /\ cursorTable = <<0>>
    /\ tx = NoTx
    /\ fate = <<>>
    /\ hist = NoHistory
    /\ backoff = NoBackoff

clientVars == <<clientState, connPos, request>>
dbVars == <<store, cursorTable, tx, fate>>
mainVars == <<cancelled, mainPc>>

\* the process runs and the context is live
Running == mainPc # "exited" /\ ~cancelled

(***************************************************************************)
(* The upstream feed                                                       *)
(***************************************************************************)
\* the feed publishes one more event; its sequence is its position
Publish(e) ==
    /\ Len(log) < MaxEvents
    /\ log' = Append(log, AtSeq(e, Len(log) + 1))
    /\ fate' = Append(fate, "new")
    /\ UNCHANGED <<clientVars, store, cursorTable, tx, mainVars, hist, backoff>>

\* how far before the resume point the feed may start redelivering
RedeliverWindow == 1

\* where the feed starts a connection: at the live edge without a cursor, else at
\* or shortly around the event the cursor names
StartPositions(c) ==
    IF c = 0 THEN {Len(log) + 1}
    ELSE {i \in 1..(Len(log) + 1) : c - RedeliverWindow <= i /\ i <= c + 1}

(***************************************************************************)
(* The stream client (RunWithReconnect)                                    *)
(***************************************************************************)
\* state after a connect or read error, retrying at once
AfterErrorRetrying(s) == "Connecting"

\* state after a connect or read error
AfterError(s) == "Disconnected"

\* Disconnected -> Connecting: read the cursor, build the subscribe request
StartConnect ==
    /\ Running
    /\ clientState = "Disconnected"
    /\ ~backoff.pending
    /\ GetCursor(cursorTable).ok
    /\ request' = SubscribeRequest(Cursor(cursorTable))
    /\ clientState' = "Connecting"
    /\ UNCHANGED <<connPos, dbVars, mainVars, log, hist, backoff>>

\* Connecting -> Streaming
ConnectOK ==
    /\ Running
    /\ clientState = "Connecting"
    /\ \E i \in StartPositions(RequestedCursor(request)) : connPos' = i
    /\ clientState' = "Streaming"
    /\ request' = NoRequest
    /\ UNCHANGED <<dbVars, mainVars, log, hist, backoff>>

\* Connecting -> Disconnected
ConnectFail ==
    /\ Running
    /\ clientState = "Connecting"
    /\ clientState' = AfterError(clientState)
    /\ request' = NoRequest
    /\ UNCHANGED <<connPos, dbVars, mainVars, log, hist, backoff>>

OpenTx(ev, a) ==
    [open |-> TRUE, ev |-> ev, store |-> a.store, cursorTable |-> a.cursorTable,
     outcome |-> a.outcome, err |-> a.err]

\* a read loop that does not wait for the processor
CanReadPipelined(t) == TRUE

\* the processor is called synchronously: the next frame is read after the
\* transaction of the event before it has ended
CanRead(t) == ~t.open

\* Streaming: read the next frame and hand it to the processor, which opens a
\* transaction and applies the event in it
ReadFrame ==
    /\ Running
    /\ clientState = "Streaming"
    /\ CanRead(tx)
    /\ connPos <= Len(log)
    /\ \E failure \in StorageFailures :
          tx' = OpenTx(log[connPos], Attempt(Db, log[connPos], failure))
    /\ connPos' = connPos + 1
    /\ UNCHANGED <<clientState, request, store, cursorTable, fate,
                   mainVars, log, hist, backoff>>

\* the transaction commits: data and cursor together
CommitTx ==
    /\ Running
    /\ tx.open /\ tx.err = "none"
    /\ store' = Committed(Db, tx).store
    /\ cursorTable' = Committed(Db, tx).cursorTable
    /\ tx' = NoTx
    /\ fate' = [fate EXCEPT ![tx.ev.seq] = "applied"]
    /\ UNCHANGED <<clientVars, mainVars, log, hist, backoff>>

\* the event failed, or the commit does: roll back, log, skip the message and go
\* on with the next frame
RollbackTx ==
    /\ Running
    /\ tx.open /\ tx.err # "none"
    /\ store' = RolledBack(Db, tx).store
    /\ cursorTable' = RolledBack(Db, tx).cursorTable
    /\ tx' = NoTx
    /\ fate' = IF tx.err # "invalid" /\ fate[tx.ev.seq] # "applied"
               THEN [fate EXCEPT ![tx.ev.seq] =
                        IF tx.err = "commit" THEN "uncommitted" ELSE "failed"]
               ELSE fate
    /\ UNCHANGED <<clientVars, mainVars, log, hist, backoff>>

\* Streaming -> Disconnected: the read fails
ReadError ==
    /\ Running
    /\ clientState = "Streaming"
    /\ ~tx.open
    /\ clientState' = AfterError(clientState)
    /\ connPos' = 0
    /\ UNCHANGED <<request, dbVars, mainVars, log, hist, backoff>>

\* any state -> Stopped: cancellation unblocks the connect, the read, the backoff
\* sleep and the open transaction (which rolls back); the client returns
Stop ==
    /\ mainPc # "exited"
    /\ cancelled
    /\ clientState # "Stopped"
    /\ clientState' = "Stopped"
    /\ tx' = NoTx
    /\ connPos' = 0
    /\ request' = NoRequest
    /\ UNCHANGED <<store, cursorTable, fate, mainVars, log, hist, backoff>>

(***************************************************************************)
(* main: the supervisor                                                    *)
(***************************************************************************)
\* case sig := <-sigChan: cancel()
Signal ==
    /\ mainPc = "waiting"
    /\ cancelled' = TRUE
    /\ mainPc' = "shutdown"
    /\ UNCHANGED <<clientVars, dbVars, log, hist, backoff>>

\* main logs "Shutdown complete" and returns: the deferred cancel and db.Close
\* run and the process ends, with it the consumer goroutine and its transaction
MainExit ==
    /\ mainPc = "shutdown"
    /\ mainPc' = "exited"
    /\ tx' = NoTx
    /\ UNCHANGED <<cancelled, clientVars, store, cursorTable, fate, log, hist, backoff>>

Next ==
    \/ \E e \in StreamMenu : Publish(e)
    \/ StartConnect
    \/ ConnectOK
    \/ ConnectFail
    \/ ReadFrame
    \/ CommitTx
    \/ RollbackTx
    \/ ReadError
    \/ Stop
    \/ Signal
    \/ MainExit

Spec == Init /\ [][Next]_vars

\* the Go scheduler runs the cancelled consumer goroutine and main whenever they
\* can step
FairSpec == Spec /\ WF_vars(Stop) /\ WF_vars(MainExit)

\* a feed that publishes a survey and then an update of it that fails validation
ProgressFeed ==
    << Event(SurveyCollection, "create", "r1", "k1", SurveyRec(TitleHi)),
       Event(SurveyCollection, "update", "r1", "k1", BadSurveyRec) >>

PublishNext ==
    /\ Len(log) < Len(ProgressFeed)
    /\ Publish(ProgressFeed[Len(log) + 1])

\* the process running without a signal: the feed and the client alone
NextRunning ==
    \/ PublishNext
    \/ StartConnect
    \/ ConnectOK
    \/ ConnectFail
    \/ ReadFrame
    \/ CommitTx
    \/ RollbackTx
    \/ ReadError

\* a frame can be read
CanReadFrame ==
    Running /\ clientState = "Streaming" /\ CanRead(tx) /\ connPos <= Len(log)

\* a frame is read and the storage serves its transaction
ReadFrameStorageUp == ~tx.open /\ tx'.open /\ tx'.err \in {"none", "invalid"}

\* the client's loop keeps running; the upstream accepts a connection and the
\* storage serves a transaction again and again (strong fairness of reading a
\* frame with the storage up, its enabling condition written out)
ProgressSpec ==
    /\ Init /\ [][NextRunning]_vars
    /\ WF_vars(StartConnect) /\ SF_vars(ConnectOK)
    /\ (<>[](~CanReadFrame) \/ []<><<ReadFrameStorageUp>>_vars)
    /\ WF_vars(CommitTx) /\ WF_vars(RollbackTx)

(***************************************************************************)
(* The processor alone: events applied one after the other to the          *)
(* database, each in its transaction, with the storage working.  hist      *)
(* keeps the last two applications: the event, the store before it, the    *)
(* outcome, and whether it repeated the event before it.                   *)
(***************************************************************************)
Entry(ev, before, outcome, replay) ==
    [ev |-> ev, before |-> before, outcome |-> outcome, replay |-> replay]

Remember(h, entry) ==
    [n |-> h.n + 1,
     entries |-> IF h.entries = <<>> THEN <<entry>>
                 ELSE <<h.entries[Len(h.entries)], entry>>]

LastEntry == hist.entries[Len(hist.entries)]

ApplyEvent(ev, replay) ==
    /\ store' = ProcessMessage(Db, ev, "none").store
    /\ cursorTable' = ProcessMessage(Db, ev, "none").cursorTable
    /\ hist' = Remember(hist, Entry(ev, store, Apply(store, ev).outcome, replay))
    /\ UNCHANGED <<clientVars, mainVars, log, tx, fate, backoff>>

\* the next event of the feed
ApplyNew(e) ==
    /\ hist.n < MaxApply
    /\ ApplyEvent(AtSeq(e, hist.n + 1), FALSE)

\* the event just processed is delivered and processed again
Replay ==
    /\ hist.n < MaxApply
    /\ hist.entries # <<>>
    /\ ApplyEvent(LastEntry.ev, TRUE)

NextApply ==
    \/ \E e \in ApplyMenu : ApplyNew(e)
    \/ Replay

SpecApply == Init /\ [][NextApply]_vars

(***************************************************************************)
(* The reconnect loop with its waits, the feed silent.  The stream         *)
(* specification above abstracts from the waits.                           *)
(***************************************************************************)
\* doubling without the maximum
NextBackoffUncapped(wait) == 2 * wait

\* the wait doubles up to the maximum
NextBackoff(wait) == Min({2 * wait, MaxBackoff})

\* a connect or read error: the client goes to Disconnected and has to wait
Failed(b) == [b EXCEPT !.n = @ + 1, !.pending = TRUE]

\* Connecting -> Disconnected
FailedConnect ==
    /\ Running
    /\ clientState = "Connecting"
    /\ backoff.n < MaxFailures
    /\ clientState' = AfterError(clientState)
    /\ request' = NoRequest
    /\ backoff' = Failed(backoff)
    /\ UNCHANGED <<connPos, dbVars, mainVars, log, hist>>

\* Streaming -> Disconnected
FailedRead ==
    /\ Running
    /\ clientState = "Streaming"
    /\ ~tx.open
    /\ backoff.n < MaxFailures
    /\ clientState' = AfterError(clientState)
    /\ connPos' = 0
    /\ backoff' = Failed(backoff)
    /\ UNCHANGED <<request, dbVars, mainVars, log, hist>>

\* the wait before the reconnect; the next one is twice as long
BackoffSleep ==
    /\ Running
    /\ clientState = "Disconnected"
    /\ backoff.pending
    /\ backoff' = [backoff EXCEPT !.slept = backoff.wait,
                                  !.wait = NextBackoff(backoff.wait),
                                  !.pending = FALSE]
    /\ UNCHANGED <<clientVars, dbVars, mainVars, log, hist>>

\* the connection has streamed for a sustained period: the wait starts over
Sustained ==
    /\ Running
    /\ clientState = "Streaming"
    /\ backoff.n > 0
    /\ backoff' = [backoff EXCEPT !.wait = InitialBackoff, !.n = 0]
    /\ UNCHANGED <<clientVars, dbVars, mainVars, log, hist>>

NextBackoffLoop ==
    \/ StartConnect
    \/ ConnectOK
    \/ FailedConnect
    \/ FailedRead
    \/ BackoffSleep
    \/ Sustained
    \/ Stop
    \/ Signal
    \/ MainExit

SpecBackoff == Init /\ [][NextBackoffLoop]_vars


(***************************************************************************)
(* The cursor store alone: GetCursor and UpdateCursor called on the table, *)
(* with or without its row.  hist keeps the last two calls.                *)
(***************************************************************************)
CursorEntry(op, arg, before, ok, timeUs, err) ==
    [op |-> op, arg |-> arg, before |-> before, ok |-> ok, timeUs |-> timeUs,
     err |-> err]

\* the table was created without its row, or the row was deleted
RowMissing ==
    /\ hist.n < MaxCursorOps
    /\ cursorTable # <<>>
    /\ cursorTable' = <<>>
    /\ hist' = Remember(hist, CursorEntry("delete", 0, cursorTable, TRUE, 0, "none"))
    /\ UNCHANGED <<clientVars, mainVars, log, store, tx, fate, backoff>>

GetCursorCall ==
    /\ hist.n < MaxCursorOps
    /\ cursorTable' = GetCursor(cursorTable).table
    /\ hist' = Remember(hist, CursorEntry("get", 0, cursorTable,
                                          GetCursor(cursorTable).ok,
                                          GetCursor(cursorTable).timeUs,
                                          GetCursor(cursorTable).err))
    /\ UNCHANGED <<clientVars, mainVars, log, store, tx, fate, backoff>>

UpdateCursorCall(timeUs) ==
    /\ hist.n < MaxCursorOps
    /\ cursorTable' = UpdateCursor(cursorTable, timeUs).table
    /\ hist' = Remember(hist, CursorEntry("update", timeUs, cursorTable,
                                          UpdateCursor(cursorTable, timeUs).ok, 0,
                                          IF UpdateCursor(cursorTable, timeUs).ok
                                          THEN "none" ELSE "notfound"))
    /\ UNCHANGED <<clientVars, mainVars, log, store, tx, fate, backoff>>

NextCursorStore ==
    \/ RowMissing
    \/ GetCursorCall
    \/ \E timeUs \in 0..MaxCursorValue : UpdateCursorCall(timeUs)

SpecCursor == Init /\ [][NextCursorStore]_vars

(***************************************************************************)
(* oauth: EnsureValidToken.  A pointer is the empty sequence (nil) or one  *)
(* value; times are minutes.  The result carries the error message ("" for *)
(* nil), the session and the storage after the call, and whether the       *)
(* refresh request and the storage update were made.                       *)
(***************************************************************************)
\* time.Now().Add(5 * time.Minute)
RefreshWindow == 5

Return(err, session, storage, refreshed, updated) ==
    [err |-> err, session |-> session, storage |-> storage,
     refreshed |-> refreshed, updated |-> updated]

Tokens(s) ==
    [AccessToken |-> s.AccessToken, RefreshToken |-> s.RefreshToken,
     TokenExpiresAt |-> s.TokenExpiresAt]

\* session.TokenExpiresAt.After(threshold)
StillValidLate(expiresAt, now) == expiresAt > now + RefreshWindow + 1
StillValid(expiresAt, now) == expiresAt > now + RefreshWindow

\* the checks before the refresh, in their order; "" when nothing is missing
MissingItemStorageFirst(s, storage) ==
    IF storage = <<>> THEN "cannot refresh token: storage is nil"
    ELSE IF s.Issuer = "" THEN "cannot refresh token: session missing issuer"
    ELSE IF s.RefreshToken = "" THEN "cannot refresh token: session missing refresh token"
    ELSE IF s.DPoPKey = "" THEN "cannot refresh token: session missing DPoP key"
    ELSE ""
MissingItem(s, storage) ==
    IF s.Issuer = "" THEN "cannot refresh token: session missing issuer"
    ELSE IF s.RefreshToken = "" THEN "cannot refresh token: session missing refresh token"
    ELSE IF s.DPoPKey = "" THEN "cannot refresh token: session missing DPoP key"
    ELSE IF storage = <<>> THEN "cannot refresh token: storage is nil"
    ELSE ""

\* newAccessToken, newRefreshToken and newExpiresAt (nil unless expiresIn > 0)
NewTokens(refresh, now) ==
    [AccessToken |-> refresh.access, RefreshToken |-> refresh.refresh,
     TokenExpiresAt |-> IF refresh.expiresIn > 0 THEN <<now + refresh.expiresIn>>
                        ELSE <<>>]

WithTokens(s, new) ==
    [s EXCEPT !.AccessToken = new.AccessToken, !.RefreshToken = new.RefreshToken,
              !.TokenExpiresAt = new.TokenExpiresAt]

\* storage.UpdateSessionTokens, then the assignments to the session
UpdateAssigningFirst(s, storage, new, update) ==
    IF ~update.ok
    THEN Return("failed to update session tokens", <<WithTokens(s, new)>>, storage,
                TRUE, TRUE)
    ELSE Return("", <<WithTokens(s, new)>>, <<new>>, TRUE, TRUE)
Update(s, storage, new, update) ==
    IF ~update.ok
    THEN Return("failed to update session tokens", <<s>>, storage, TRUE, TRUE)
    ELSE Return("", <<WithTokens(s, new)>>, <<new>>, TRUE, TRUE)

\* RefreshAccessToken and what follows it
Refresh(s, storage, later, refresh, update) ==
    IF ~refresh.ok THEN Return("token refresh failed", <<s>>, storage, TRUE, FALSE)
    ELSE Update(s, storage, NewTokens(refresh, later), update)

EnsureValidToken(session, storage, now, later, refresh, update) ==
    IF session = <<>>
    THEN Return("session cannot be nil", session, storage, FALSE, FALSE)
    ELSE IF session[1].TokenExpiresAt = <<>>
    THEN Return("", session, storage, FALSE, FALSE)
    ELSE IF StillValid(session[1].TokenExpiresAt[1], now)
    THEN Return("", session, storage, FALSE, FALSE)
    ELSE IF MissingItem(session[1], storage) # ""
    THEN Return(MissingItem(session[1], storage), session, storage, FALSE, FALSE)
    ELSE Refresh(session[1], storage, later, refresh, update)

(***************************************************************************)
(* The decoders alone: one call on one input.  hist keeps the call.        *)
(***************************************************************************)
Call(fn, input, out) == [fn |-> fn, input |-> input, out |-> out]

RECURSIVE SeqsUpTo(_, _)
\* the sequences over S of length 1..n
SeqsUpTo(S, n) ==
    IF n = 0 THEN {}
    ELSE {<<x>> : x \in S} \cup SeqsUpTo(S, n - 1)
         \cup {Append(q, x) : q \in SeqsUpTo(S, n - 1), x \in S}

OptionY == Obj([id |-> Str(<<"y">>), text |-> Str(<<"Y">>)])

QuestionWith(options) ==
    Obj([id |-> Str(<<"q">>), text |-> Str(<<"L", "?">>), type |-> Str(<<"s">>),
         options |-> options])

\* questions as they come in a record: well formed, and failing each check
QuestionInputs ==
    { Question1,
      Obj([id |-> Str(<<"p">>), text |-> Str(<<"T">>), type |-> Str(<<"t">>),
           required |-> Bool(TRUE)]),
      Str(<<"q">>),
      Obj([text |-> Str(<<"T">>), type |-> Str(<<"t">>)]),
      Obj([id |-> Str(<<>>), text |-> Str(<<"T">>), type |-> Str(<<"t">>)]),
      Obj([id |-> Bool(TRUE), text |-> Str(<<"T">>), type |-> Str(<<"t">>)]),
      Obj([id |-> Str(<<"q">>), type |-> Str(<<"t">>)]),
      Obj([id |-> Str(<<"q">>), text |-> Str(<<"T">>)]),
      Obj([id |-> Str(<<"q">>), text |-> Str(<<"T">>), type |-> Str(<<>>)]),
      Obj([id |-> Str(<<"q">>), text |-> Str(<<"T">>), type |-> Str(<<"s", "#">>)]),
      Obj([type |-> Str(<<"t">>)]),
      Obj([id |-> Str(<<"q">>), text |-> Str(<<>>),
           options |-> Arr(<<Str(<<"y">>)>>)]),
      QuestionWith(Str(<<"y">>)),
      QuestionWith(Arr(<<>>)),
      QuestionWith(Arr(<<Str(<<"y">>)>>)),
      QuestionWith(Arr(<<Obj([text |-> Str(<<"Y">>)])>>)),
      QuestionWith(Arr(<<OptionY, Obj([id |-> Str(<<"n">>), text |-> Str(<<>>)])>>)),
      QuestionWith(Arr(<<OptionY, Obj([id |-> Str(<<>>)]), Str(<<"n">>)>>)) }

SurveyInputs ==
    { [questions |-> Arr(<<Question1>>)],
      [name |-> Str(<<>>), questions |-> Arr(<<Question1>>)],
      [name |-> Bool(TRUE)],
      [name |-> Str(TitleHi)],
      [name |-> Str(TitleHi), questions |-> Arr(<<>>)],
      [name |-> Str(TitleHi), questions |-> Str(<<"q">>)],
      [name |-> Str(TitleHi), description |-> Str(<<"d">>), anonymous |-> Bool(TRUE),
       questions |-> Arr(<<Question1>>)] }
    \cup {[name |-> Str(TitleTeam), questions |-> Arr(qs)] :
             qs \in SeqsUpTo(QuestionInputs, MaxQuestions)}

TypeInputs == {<<>>} \cup SeqsUpTo({"a", "#"}, MaxTypeLen)

ParseSurveyRecordCall(record) ==
    /\ hist.n = 0
    /\ hist' = Remember(hist, Call("ParseSurveyRecord", record, ParseSurveyRecord(record)))
    /\ UNCHANGED <<clientVars, mainVars, log, dbVars, backoff>>

stripTokenPrefixCall(tokenType) ==
    /\ hist.n = 0
    /\ hist' = Remember(hist, Call("stripTokenPrefix", tokenType,
                                    stripTokenPrefix(tokenType)))
    /\ UNCHANGED <<clientVars, mainVars, log, dbVars, backoff>>

QuestionOfType(tokenType) ==
    [id |-> Str(<<"q">>), text |-> Str(<<"L", "?">>), type |-> Str(tokenType)]

parseQuestionCall(tokenType) ==
    /\ hist.n = 0
    /\ hist' = Remember(hist, Call("parseQuestion", tokenType,
                                    parseQuestion(QuestionOfType(tokenType), 0)))
    /\ UNCHANGED <<clientVars, mainVars, log, dbVars, backoff>>

AnswerTo(qid) == [questionId |-> Str(qid)]
ChoiceBA == Arr(<<Str(<<"b">>), Str(<<"a">>)>>)
ChoiceAB == Arr(<<Str(<<"a">>), Str(<<"b">>)>>)
SubjectOf(uri) == Obj([uri |-> Str(uri)])

\* answers as they come in a record: with and without each field, well and
\* badly typed
AnswerInputs ==
    { Str(<<"q">>),
      Obj([text |-> Str(<<"T">>)]),
      Obj([questionId |-> Str(<<>>), selectedOptions |-> ChoiceAB]),
      Obj([questionId |-> Bool(TRUE)]),
      Obj(AnswerTo(<<"q">>)),
      Obj([questionId |-> Str(<<"q">>), selectedOptions |-> ChoiceAB]),
      Obj([questionId |-> Str(<<"q">>), selectedOptions |-> ChoiceBA]),
      Obj([questionId |-> Str(<<"p">>), selectedOptions |-> Arr(<<>>)]),
      Obj([questionId |-> Str(<<"q">>), text |-> Str(<<"T">>)]),
      Obj([questionId |-> Str(<<"p">>), text |-> Str(<<>>), selectedOptions |-> ChoiceBA]),
      Obj([questionId |-> Str(<<"q">>), selected |-> ChoiceAB]),
      Obj([questionId |-> Str(<<"q">>), selected |-> ChoiceAB, selectedOptions |-> ChoiceBA]),
      Obj([questionId |-> Str(<<"p">>), selected |-> Bool(TRUE), text |-> Str(<<"T">>)]),
      Obj([questionId |-> Str(<<"q">>), selectedOptions |-> Str(<<"a">>)]),
      Obj([questionId |-> Str(<<"q">>),
           selectedOptions |-> Arr(<<Str(<<"a">>), Bool(TRUE)>>)]),
      Obj([questionId |-> Str(<<"q">>), text |-> Bool(TRUE)]) }

ResponseInputs ==
    { [answers |-> Arr(<<Obj(AnswerTo(<<"q">>))>>)],
      [subject |-> Str(<<"u">>), answers |-> Arr(<<Obj(AnswerTo(<<"q">>))>>)],
      [subject |-> Obj([cid |-> Str(<<"c">>)]), answers |-> Arr(<<Obj(AnswerTo(<<"q">>))>>)],
      [subject |-> SubjectOf(<<>>), answers |-> Arr(<<Obj(AnswerTo(<<"q">>))>>)],
      [subject |-> Obj([uri |-> Bool(TRUE)]), answers |-> Arr(<<Obj(AnswerTo(<<"q">>))>>)],
      [subject |-> SubjectOf(<<"u">>)],
      [subject |-> SubjectOf(<<"u">>), answers |-> Arr(<<>>)],
      [subject |-> SubjectOf(<<"u">>), answers |-> Str(<<"q">>)] }
    \cup {[subject |-> SubjectOf(<<"u">>), answers |-> Arr(as)] :
             as \in SeqsUpTo(AnswerInputs, MaxAnswers)}

ParseResponseRecordCall(record) ==
    /\ hist.n = 0
    /\ hist' = Remember(hist, Call("ParseResponseRecord", record,
                                    ParseResponseRecord(record)))
    /\ UNCHANGED <<clientVars, mainVars, log, dbVars, backoff>>

TitleChars == {"A", "b", "7", "?", " "}
Filling(n) == [i \in 1..n |-> "a"]

\* short titles, and titles about as long as the longest slug
TitleInputs ==
    {<<>>} \cup SeqsUpTo(TitleChars, MaxTitleLen)
    \cup {Filling(n) \o t : n \in (MaxSlugLen - 2)..MaxSlugLen,
                             t \in {<<>>} \cup SeqsUpTo(TitleChars, MaxTailLen)}

GenerateSlugFromTitleCall(title) ==
    /\ hist.n = 0
    /\ hist' = Remember(hist, Call("GenerateSlugFromTitle", title,
                                    GenerateSlugFromTitle(title)))
    /\ UNCHANGED <<clientVars, mainVars, log, dbVars, backoff>>

NextParse ==
    \/ \E title \in TitleInputs : GenerateSlugFromTitleCall(title)
    \/ \E record \in SurveyInputs : ParseSurveyRecordCall(record)
    \/ \E record \in ResponseInputs : ParseResponseRecordCall(record)
    \/ \E tokenType \in TypeInputs : parseQuestionCall(tokenType)
    \/ \E tokenType \in TypeInputs : stripTokenPrefixCall(tokenType)

SpecParse == Init /\ [][NextParse]_vars

(***************************************************************************)
(* EnsureValidToken alone: one call on one session, storage, clock and     *)
(* outcome of the refresh request and of the storage update.               *)
(***************************************************************************)
SessionInputs ==
    {<<>>} \cup
    {<<[ID |-> "test-session", DID |-> "did:plc:test123", AccessToken |-> "old-token",
        RefreshToken |-> r, DPoPKey |-> k, Issuer |-> i, TokenExpiresAt |-> e]>> :
        r \in {"", "refresh-token"}, k \in {"", "dpop-key"},
        i \in {"", "https://auth.example.com"},
        e \in {<<>>} \cup {<<t>> : t \in 0..MaxExpiresAt}}

\* no storage, or the storage holding the session's tokens
StorageInputs(session) ==
    {<<>>} \cup (IF session = <<>> THEN {} ELSE {<<Tokens(session[1])>>})

RefreshOutcomes ==
    {[ok |-> FALSE]} \cup
    {[ok |-> TRUE, access |-> "new-token", refresh |-> "new-refresh", expiresIn |-> x] :
        x \in {0, RefreshWindow + 2}}

UpdateOutcomes == {[ok |-> TRUE], [ok |-> FALSE]}

TokenCall(session, storage, now, refresh, update) ==
    [session |-> session, storage |-> storage, now |-> now, refresh |-> refresh,
     update |-> update]

EnsureValidTokenCall(session, storage, now, later, refresh, update) ==
    /\ hist.n = 0
    /\ hist' = Remember(hist,
                  Call("EnsureValidToken", TokenCall(session, storage, now, refresh, update),
                       EnsureValidToken(session, storage, now, later, refresh, update)))
    /\ UNCHANGED <<clientVars, mainVars, log, dbVars, backoff>>

NextToken ==
    \E session \in SessionInputs, now \in 0..MaxNow, wait \in 0..1,
       refresh \in RefreshOutcomes, update \in UpdateOutcomes :
        \E storage \in StorageInputs(session) :
            EnsureValidTokenCall(session, storage, now, now + wait, refresh, update)

SpecToken == Init /\ [][NextToken]_vars

(***************************************************************************)
(* Properties of the stream specification                                  *)
(***************************************************************************)
\* the committed cursor names no event, or one whose transaction committed
CursorAtCommitted ==
    Cursor(cursorTable) # 0 =>
        /\ Cursor(cursorTable) <= Len(fate)
        /\ fate[Cursor(cursorTable)] = "applied"

\* committed rows and committed cursor change only by a transaction that
\* commits, and then both become what the transaction holds
AllOrNothing ==
    (store' # store \/ cursorTable' # cursorTable) =>
        /\ tx.open /\ ~tx'.open /\ tx.err = "none"
        /\ store' = tx.store
        /\ cursorTable' = tx.cursorTable
        /\ fate'[tx.ev.seq] = "applied"

\* C1: data mutation and cursor advance commit together or not at all: the
\* committed cursor is never at an event whose data write did not commit, and
\* after a failed or rolled back transaction the committed cursor and rows are
\* what they were before the attempt, whatever the transaction had written
AtomicCursorData == []CursorAtCommitted /\ [][AllOrNothing]_vars

\* a transaction that had written the cursor was rolled back, and the committed
\* cursor is still below its event
RolledBackAfterCursorWrite ==
    /\ ~tx.open
    /\ \E i \in 1..Len(fate) : fate[i] = "uncommitted" /\ Cursor(cursorTable) < i

\* C2: an event whose application failed for a transient reason is not lost: no
\* later event is committed, moving the cursor to or past its sequence, before
\* the event itself has been applied
NoEventLost ==
    \A i \in 1..Len(fate) :
        fate[i] \in {"failed", "uncommitted"} => Cursor(cursorTable) < i

\* the transaction of a permanently failing event ends, the consumer still running
PermanentFailureEnds ==
    /\ ~cancelled
    /\ tx.open /\ ~tx'.open
    /\ \/ tx.err = "invalid"
       \/ tx.err = "none" /\ tx.outcome = "unauthorized"

\* C3: an event that fails for a permanent reason (decode or validation error,
\* authorization failure) changes no data, and its transaction commits the
\* cursor advance to its sequence
SkipAndAdvance ==
    [][PermanentFailureEnds =>
          store' = store /\ Cursor(cursorTable') >= tx.ev.seq]_vars

\* C4: the committed cursor never decreases, also when an event at or below the
\* cursor is delivered again
CursorNeverRegresses == [][Cursor(cursorTable') >= Cursor(cursorTable)]_vars

\* an event below the committed cursor was delivered again and applied in a
\* transaction that leaves the cursor where it is
ReplayBelowCursor ==
    /\ tx.open /\ tx.err = "none"
    /\ tx.ev.seq < Cursor(cursorTable)
    /\ tx.cursorTable = cursorTable

ClientTransition ==
    \/ clientState' = clientState
    \/ clientState = "Disconnected" /\ clientState' = "Connecting"
    \/ clientState = "Connecting" /\ clientState' \in {"Streaming", "Disconnected"}
    \/ clientState = "Streaming" /\ clientState' = "Disconnected"
    \/ clientState # "Stopped" /\ clientState' = "Stopped" /\ cancelled

\* C9: the client only moves Disconnected -> Connecting, Connecting -> Streaming,
\* Connecting or Streaming -> Disconnected and, on cancellation, any state ->
\* Stopped, which it never leaves; an event is handed to the processor only
\* while the client is Streaming
ClientStateMachine ==
    /\ [](tx.open => clientState = "Streaming")
    /\ [][/\ ClientTransition
          /\ (~tx.open /\ tx'.open) => (clientState = "Streaming" /\ clientState' = "Streaming")
         ]_vars

\* the client streamed, applied an event and was stopped
StoppedAfterStreaming ==
    /\ clientState = "Stopped"
    /\ \E i \in 1..Len(fate) : fate[i] = "applied"

\* C10: once the context is cancelled the client eventually reaches Stopped, and
\* it starts no connect attempt after the cancellation
CancellationStops ==
    /\ cancelled ~> (clientState = "Stopped")
    /\ [][cancelled => ~(clientState # "Connecting" /\ clientState' = "Connecting")]_vars

\* C23: the process reports shutdown complete and closes the database only
\* after the consumer loop has returned, never while the connection is open or
\* an event is being processed
ShutdownAfterConsumer == mainPc = "exited" => clientState = "Stopped"

ResumeParameter ==
    clientState = "Connecting" =>
        /\ request.wantedCollections =
               <<SurveyCollection, ResponseCollection, ResultsCollection>>
        /\ (request.cursor # <<>>) <=> (Cursor(cursorTable) # 0)
        /\ request.cursor # <<>> => request.cursor = <<Cursor(cursorTable)>>

\* a reconnect after two events were committed asks to resume from 2
ResumesFromCursor ==
    /\ clientState = "Connecting"
    /\ request.cursor = <<2>>
    /\ Cursor(cursorTable) = 2

\* a frame is read, and a transaction opened, only when no transaction is open
OneAtATime ==
    /\ (connPos # 0 /\ connPos' = connPos + 1) =>
           (~tx.open /\ tx'.open /\ tx'.ev = log[connPos])
    /\ (tx'.open /\ tx' # tx) => ~tx.open

\* the committed cursor moves only to the sequence of the frame read last, and
\* only forward
InDeliveryOrder ==
    Cursor(cursorTable') # Cursor(cursorTable) =>
        /\ tx.open /\ connPos > 1 /\ tx.ev = log[connPos - 1]
        /\ Cursor(cursorTable') = tx.ev.seq
        /\ Cursor(cursorTable') > Cursor(cursorTable)

\* C13: events are processed one at a time: the transaction of an event is
\* committed or rolled back before the next frame is read, never two are open,
\* and within a connection the cursor advances in delivery order
SequentialProcessing == [][OneAtATime /\ InDeliveryOrder]_vars

\* the second frame was read and applied after the first was committed
SecondFrameAfterCommit ==
    /\ tx.open /\ tx.err = "none"
    /\ connPos = 3 /\ tx.ev.seq = 2
    /\ Cursor(cursorTable) = 1
    /\ Cursor(tx.cursorTable) = 2

RECURSIVE Pow2(_)
Pow2(k) == IF k = 0 THEN 1 ELSE 2 * Pow2(k - 1)

\* C11: the wait before the n-th consecutive reconnect attempt is
\* min(2^(n-1), 60) seconds and never more than 60; after sustained streaming
\* the wait for the next failure is 1 second again
BackoffSchedule ==
    /\ backoff.slept <= MaxBackoff
    /\ (backoff.n > 0 /\ ~backoff.pending) =>
           backoff.slept = Min({Pow2(backoff.n - 1), 60})
    /\ backoff.n = 0 => backoff.wait = 1

\* the wait reached the maximum, then streaming was sustained: the next wait is
\* one second
CappedThenReset ==
    /\ backoff.slept = MaxBackoff
    /\ backoff.n = 0
    /\ backoff.wait = InitialBackoff
    /\ clientState = "Streaming"

(***************************************************************************)
(* Properties of the processor specification                               *)
(***************************************************************************)
IsSurveyChange(ev) ==
    ev.collection = SurveyCollection /\ ev.operation \in {"update", "delete"}

\* the stored surveys the event targets that another repository owns
ForeignSurveys(st, ev) == {s \in SurveysAt(st, ev.rkey) : s.owner # ev.repo}

OneRowPerVoter ==
    \A a, b \in store.responses : (a.voter = b.voter /\ a.survey = b.survey) => a = b

IsVote(ev) ==
    ev.collection = ResponseCollection /\ ev.operation \in {"create", "update"}

\* C6: the store holds at most one response row per (voter, survey), and after
\* a Response Create or Update that decoded and resolved its survey, the row of
\* the pair holds that event's answers
LatestVoteStored ==
    /\ OneRowPerVoter
    /\ (/\ hist.entries # <<>>
        /\ IsVote(LastEntry.ev)
        /\ LastEntry.outcome \in {"applied", "duplicate"})
       => \E r \in store.responses :
             /\ r.voter = LastEntry.ev.repo
             /\ r.survey \in ResolveSurvey(LastEntry.before,
                                           ParseResponseRecord(LastEntry.ev.record).surveyURI)
             /\ r.answers = ParseResponseRecord(LastEntry.ev.record).answers

EarlierEntry == hist.entries[1]

\* the last two events are Survey events on the same survey (repository and
\* record key), the second with the higher sequence
TwoOnSameSurvey ==
    /\ Len(hist.entries) = 2
    /\ EarlierEntry.ev.collection = SurveyCollection
    /\ LastEntry.ev.collection = SurveyCollection
    /\ EarlierEntry.ev.repo = LastEntry.ev.repo
    /\ EarlierEntry.ev.rkey = LastEntry.ev.rkey
    /\ EarlierEntry.ev.seq < LastEntry.ev.seq

\* the store after the later event alone, from the state before the earlier one
LaterAlone == Apply(EarlierEntry.before, LastEntry.ev).store

\* C8 as stated: for two events on the same survey with increasing sequence,
\* the store after both equals the store after the later one alone
LaterWins == TwoOnSameSurvey => store = LaterAlone

\* the later event is a Delete, or the survey was stored before the earlier
\* event, which is a Create or Update, and the later is a valid Create or Update
LaterDecides ==
    \/ LastEntry.ev.operation = "delete"
    \/ /\ HasSurvey(EarlierEntry.before, EarlierEntry.ev)
       /\ EarlierEntry.ev.operation \in {"create", "update"}
       /\ LastEntry.ev.operation \in {"create", "update"}
       /\ ParseSurveyRecord(LastEntry.ev.record).ok

\* C8 amended: later wins when the later event is a Delete, or when the survey
\* already exists before the earlier Create or Update and the later event is a
\* valid Create or Update
LaterWinsOnStoredSurvey == (TwoOnSameSurvey /\ LaterDecides) => store = LaterAlone

\* a stored survey was updated and then created again with another title
StoredSurveyRewritten ==
    /\ TwoOnSameSurvey
    /\ HasSurvey(EarlierEntry.before, EarlierEntry.ev)
    /\ EarlierEntry.ev.operation = "update" /\ EarlierEntry.outcome = "applied"
    /\ LastEntry.ev.operation = "create" /\ LastEntry.outcome = "applied"
    /\ \E s \in store.surveys : s.title = TitleHi /\ s.owner = LastEntry.ev.repo

\* the survey of store st that the event's repository has at its record key
SurveyOf(st, ev) == CHOOSE s \in st.surveys : s.owner = ev.repo /\ s.rkey = ev.rkey

\* a Survey Create or Update was applied to a survey that was already stored
AppliedToStored ==
    /\ hist.entries # <<>>
    /\ LastEntry.ev.collection = SurveyCollection
    /\ LastEntry.ev.operation \in {"create", "update"}
    /\ LastEntry.outcome = "applied"
    /\ HasSurvey(LastEntry.before, LastEntry.ev)

\* the stored survey has the fields of payload p and the slug it had
Overwritten(was, now, p) ==
    /\ now.slug = was.slug
    /\ now.title = p.name /\ now.description = p.description /\ now.def = p.def

\* C26: the store holds at most one survey per (owning repository, record
\* key); a Create for a survey that is already stored, like an Update,
\* overwrites its mutable fields and keeps the slug it was first given
CreateOnStoredIsUpdate ==
    /\ \A s, t \in store.surveys : (s.owner = t.owner /\ s.rkey = t.rkey) => s = t
    /\ AppliedToStored =>
          /\ HasSurvey(store, LastEntry.ev)
          /\ Cardinality(store.surveys) = Cardinality(LastEntry.before.surveys)
          /\ Overwritten(SurveyOf(LastEntry.before, LastEntry.ev),
                         SurveyOf(store, LastEntry.ev),
                         ParseSurveyRecord(LastEntry.ev.record))

\* a stored survey was created again under another title and kept its slug
CreatedAgainRetitled ==
    /\ AppliedToStored
    /\ LastEntry.ev.operation = "create"
    /\ SurveyOf(store, LastEntry.ev).title # SurveyOf(LastEntry.before, LastEntry.ev).title
    /\ SurveyOf(store, LastEntry.ev).slug
           # GenerateSlugFromTitle(SurveyOf(store, LastEntry.ev).title)

\* C16: an event of a collection other than survey, response and results
\* changes no stored row, and the cursor advances to its sequence
OtherCollectionIgnored ==
    (/\ hist.entries # <<>>
     /\ LastEntry.ev.collection \notin
            {SurveyCollection, ResponseCollection, ResultsCollection})
    => /\ store = LastEntry.before
       /\ Cursor(cursorTable) = LastEntry.ev.seq

\* an event of another collection was processed with a survey stored
OtherCollectionProcessed ==
    /\ hist.entries # <<>>
    /\ LastEntry.ev.collection = OtherCollection
    /\ ~LastEntry.replay
    /\ store.surveys # {}
    /\ Cursor(cursorTable) = LastEntry.ev.seq

SlugsUnique == \A a, b \in store.surveys : a.slug = b.slug => a = b

\* the last event is a Survey Create that stored a new survey
SurveyInserted ==
    /\ hist.entries # <<>>
    /\ LastEntry.ev.collection = SurveyCollection
    /\ LastEntry.ev.operation = "create"
    /\ LastEntry.outcome = "applied"
    /\ ~HasSurvey(LastEntry.before, LastEntry.ev)

\* slug is base with the smallest suffix (none, -2, -3, ...) not in taken
SmallestFree(slug, base, taken) ==
    \E k \in 1..(Cardinality(taken) + 1) :
        /\ slug = Suffixed(base, k)
        /\ slug \notin taken
        /\ \A j \in 1..(k - 1) : Suffixed(base, j) \in taken

\* C17: no two stored surveys have the same slug, and a Create is stored with
\* the slug generated from its title, or, that one being taken, with the
\* smallest free suffix -2, -3, ...
SlugUniqueness ==
    /\ SlugsUnique
    /\ SurveyInserted =>
           \A s \in store.surveys \ LastEntry.before.surveys :
               SmallestFree(s.slug,
                            GenerateSlugFromTitle(ParseSurveyRecord(LastEntry.ev.record).name),
                            Slugs(LastEntry.before))

\* a third survey with the same generated slug was stored with the suffix -3
ThirdSlug ==
    /\ SurveyInserted
    /\ Cardinality(store.surveys) = 3
    /\ \E s \in store.surveys \ LastEntry.before.surveys :
           s.slug = <<"s", "u", "r", "v", "e", "y", "-", "h", "i", "-", "3">>

\* the record without the fields the response decoder does not read
Essential(record) == [f \in DOMAIN record \cap {"subject", "answers"} |-> record[f]]

WithRecord(ev, record) == [ev EXCEPT !.record = record]

\* C18: a Response Create or Update decodes to the same result and leaves the
\* same store as the event with the same repository, subject.uri and answers
\* and no other payload field, and the row it stores has the envelope's
\* repository as voter
VoterFromEnvelope ==
    (hist.entries # <<>> /\ IsVote(LastEntry.ev)) =>
        /\ ParseResponseRecord(LastEntry.ev.record) =
               ParseResponseRecord(Essential(LastEntry.ev.record))
        /\ store = Apply(LastEntry.before,
                         WithRecord(LastEntry.ev, Essential(LastEntry.ev.record))).store
        /\ \A r \in store.responses \ LastEntry.before.responses :
               r.voter = LastEntry.ev.repo

\* a vote whose payload names another repository in a did field was stored
VoteWithForeignDid ==
    /\ hist.entries # <<>>
    /\ IsVote(LastEntry.ev)
    /\ NonEmptyStr(LastEntry.ev.record, "did")
    /\ LastEntry.ev.record["did"].s # <<LastEntry.ev.repo>>
    /\ LastEntry.outcome = "applied"
    /\ \E r \in store.responses \ LastEntry.before.responses :
           r.voter = LastEntry.ev.repo

(***************************************************************************)
(* Properties of the cursor store specification                            *)
(***************************************************************************)
\* C14: GetCursor on a table without the row fails with not-found, creates no
\* row and reports no value; on a table with the row it returns the stored
\* value; the table is unchanged either way
GetCursorReportsRow ==
    (hist.entries # <<>> /\ LastEntry.op = "get") =>
        /\ cursorTable = LastEntry.before
        /\ LastEntry.before = <<>> => (~LastEntry.ok /\ LastEntry.err = "notfound")
        /\ LastEntry.before # <<>> =>
               (LastEntry.ok /\ LastEntry.timeUs = LastEntry.before[1])

\* GetCursor was called on the table without its row
GetWithoutRow ==
    /\ hist.entries # <<>>
    /\ LastEntry.op = "get"
    /\ LastEntry.before = <<>>
    /\ ~LastEntry.ok
    /\ cursorTable = <<>>

\* C15: UpdateCursor on a table without the row returns an error and inserts
\* nothing; on a table with the row it leaves that one row holding the given
\* value, which a following GetCursor returns
UpdateCursorNeverInserts ==
    /\ (hist.entries # <<>> /\ LastEntry.op = "update") =>
           /\ LastEntry.before = <<>> => (~LastEntry.ok /\ cursorTable = <<>>)
           /\ LastEntry.before # <<>> => (LastEntry.ok /\ cursorTable = <<LastEntry.arg>>)
    /\ (/\ Len(hist.entries) = 2
        /\ EarlierEntry.op = "update" /\ EarlierEntry.ok
        /\ LastEntry.op = "get")
       => (LastEntry.ok /\ LastEntry.timeUs = EarlierEntry.arg)

\* UpdateCursor was called on the table without its row: an error, and still no row
UpdateWithoutRow ==
    /\ hist.entries # <<>>
    /\ LastEntry.op = "update"
    /\ LastEntry.before = <<>>
    /\ ~LastEntry.ok
    /\ cursorTable = <<>>

(***************************************************************************)
(* Properties of the decoders                                              *)
(***************************************************************************)
Called(fn) == hist.entries # <<>> /\ LastEntry.fn = fn

ValidOption(opt) ==
    opt.t = "obj" /\ NonEmptyStr(opt.o, "id") /\ NonEmptyStr(opt.o, "text")

ValidQuestion(q) ==
    /\ q.t = "obj"
    /\ NonEmptyStr(q.o, "id") /\ NonEmptyStr(q.o, "text") /\ NonEmptyStr(q.o, "type")
    /\ IsArr(q.o, "options") =>
           \A j \in 1..Len(q.o["options"].a) : ValidOption(q.o["options"].a[j])

ValidSurvey(record) ==
    /\ NonEmptyStr(record, "name")
    /\ IsArr(record, "questions") /\ Len(record["questions"].a) > 0
    /\ \A i \in 1..Len(record["questions"].a) : ValidQuestion(record["questions"].a[i])

\* the error of the first failing check of option opt, the j-th of question i
OptionError(opt, i, j) ==
    IF opt.t # "obj" THEN Err("option: not an object", i, j)
    ELSE IF ~NonEmptyStr(opt.o, "id") THEN Err("option: id is required", i, j)
    ELSE Err("option: text is required", i, j)

FirstBadOption(opts) == Min({j \in 1..Len(opts) : ~ValidOption(opts[j])})

\* the error of the first failing check of question q, the i-th of the record
QuestionError(q, i) ==
    IF q.t # "obj" THEN Err("question is not an object", i, -1)
    ELSE IF ~NonEmptyStr(q.o, "id") THEN Err("question: id is required", i, -1)
    ELSE IF ~NonEmptyStr(q.o, "text") THEN Err("question: text is required", i, -1)
    ELSE IF ~NonEmptyStr(q.o, "type") THEN Err("question: type is required", i, -1)
    ELSE OptionError(q.o["options"].a[FirstBadOption(q.o["options"].a)], i,
                     FirstBadOption(q.o["options"].a) - 1)

FirstBadQuestion(qs) == Min({i \in 1..Len(qs) : ~ValidQuestion(qs[i])})

SurveyError(record) ==
    IF ~NonEmptyStr(record, "name") THEN Err("survey name is required", -1, -1)
    ELSE IF ~IsArr(record, "questions") \/ Len(record["questions"].a) = 0
    THEN Err("survey must have at least one question", -1, -1)
    ELSE QuestionError(record["questions"].a[FirstBadQuestion(record["questions"].a)],
                       FirstBadQuestion(record["questions"].a) - 1)

\* title is name, and the questions are the record's, in its order
SurveyDecoded(record, out) ==
    /\ out.name = record["name"].s
    /\ Len(out.def.Questions) = Len(record["questions"].a)
    /\ \A i \in 1..Len(out.def.Questions) :
          /\ out.def.Questions[i].ID = record["questions"].a[i].o["id"].s
          /\ out.def.Questions[i].Text = record["questions"].a[i].o["text"].s

\* C19: ParseSurveyRecord succeeds exactly on a record with a non-empty string
\* name, a non-empty questions array, questions that are objects with non-empty
\* string id, text and type, and listed options that are objects with non-empty
\* id and text; otherwise it returns no value and the error of the first
\* failing check (name, questions, then question by question id, text, type,
\* options) with the index of the question and option; on success title is
\* name and the questions keep their order
ParseSurveyRecordChecks ==
    Called("ParseSurveyRecord") =>
        /\ LastEntry.out.ok <=> ValidSurvey(LastEntry.input)
        /\ ~LastEntry.out.ok =>
               /\ LastEntry.out = SurveyError(LastEntry.input)
               /\ DOMAIN LastEntry.out = {"ok", "err", "q", "o"}
        /\ LastEntry.out.ok => SurveyDecoded(LastEntry.input, LastEntry.out)

\* a record whose first question is well formed and whose second has a good
\* first option and a bad second one was rejected
SecondOptionRejected ==
    /\ Called("ParseSurveyRecord")
    /\ ~LastEntry.out.ok
    /\ LastEntry.out.q = 1 /\ LastEntry.out.o = 1
    /\ ValidQuestion(LastEntry.input["questions"].a[1])

\* out is what follows the last '#' of tokenType, all of it when it has none
IsFinalSegment(tokenType, out) ==
    /\ \A i \in 1..Len(out) : out[i] # "#"
    /\ \E k \in 0..Len(tokenType) :
          /\ out = SubSeq(tokenType, k + 1, Len(tokenType))
          /\ IF k = 0 THEN \A i \in 1..Len(tokenType) : tokenType[i] # "#"
                      ELSE tokenType[k] = "#"

\* C20: the type of a decoded question is the part of the record's type string
\* after its last '#', the whole string when it has no '#', and never
\* contains '#'
TypeIsFinalSegment ==
    /\ Called("stripTokenPrefix") => IsFinalSegment(LastEntry.input, LastEntry.out)
    /\ Called("parseQuestion") /\ LastEntry.out.ok =>
           IsFinalSegment(LastEntry.input, LastEntry.out.question.Type)

\* a question whose type string has two separators was decoded
TwoSeparatorsDecoded ==
    /\ Called("parseQuestion")
    /\ LastEntry.out.ok
    /\ LastEntry.input = <<"a", "#", "a", "#", "a">>
    /\ LastEntry.out.question.Type = <<"a">>

ResponseRequired(record) ==
    /\ IsObj(record, "subject") /\ NonEmptyStr(record["subject"].o, "uri")
    /\ IsArr(record, "answers") /\ Len(record["answers"].a) > 0
    /\ \A i \in 1..Len(record["answers"].a) :
          /\ record["answers"].a[i].t = "obj"
          /\ NonEmptyStr(record["answers"].a[i].o, "questionId")

\* the optional fields an answer carries have their types
WellTyped(ansObj) ==
    /\ "selectedOptions" \in DOMAIN ansObj =>
          /\ ansObj["selectedOptions"].t = "arr"
          /\ \A j \in 1..Len(ansObj["selectedOptions"].a) :
                ansObj["selectedOptions"].a[j].t = "str"
    /\ "text" \in DOMAIN ansObj => ansObj["text"].t = "str"

\* the selectedOptions of an answer, in their order; none without the field
ChoiceList(ansObj) ==
    IF "selectedOptions" \in DOMAIN ansObj
    THEN [j \in 1..Len(ansObj["selectedOptions"].a) |-> ansObj["selectedOptions"].a[j].s]
    ELSE <<>>

\* answer i is the record's last answer to its question
LastAnswerTo(as, i) ==
    \A k \in (i + 1)..Len(as) : as[k].o["questionId"].s # as[i].o["questionId"].s

\* C21: ParseResponseRecord succeeds only on a record with a subject object
\* with a non-empty string uri, a non-empty answers array and answers that are
\* objects with a non-empty string questionId; the choice list of an answer is
\* its selectedOptions in their order, whatever a field named selected holds;
\* and an answer with selectedOptions, text, both or neither is not rejected
ParseResponseRecordChecks ==
    Called("ParseResponseRecord") =>
        /\ LastEntry.out.ok => ResponseRequired(LastEntry.input)
        /\ LastEntry.out.ok =>
              \A i \in 1..Len(LastEntry.input["answers"].a) :
                  LastAnswerTo(LastEntry.input["answers"].a, i) =>
                      LastEntry.out.answers[
                          LastEntry.input["answers"].a[i].o["questionId"].s
                      ].SelectedOptions
                          = ChoiceList(LastEntry.input["answers"].a[i].o)
        /\ ( /\ ResponseRequired(LastEntry.input)
             /\ \A i \in 1..Len(LastEntry.input["answers"].a) :
                   WellTyped(LastEntry.input["answers"].a[i].o) )
           => LastEntry.out.ok

\* a response whose answers carry selected next to selectedOptions, and
\* neither field, was decoded
SelectedIgnored ==
    /\ Called("ParseResponseRecord")
    /\ LastEntry.out.ok
    /\ Len(LastEntry.input["answers"].a) = 2
    /\ "selected" \in DOMAIN LastEntry.input["answers"].a[1].o
    /\ DOMAIN LastEntry.input["answers"].a[2].o = {"questionId"}
    /\ LastEntry.input["answers"].a[1].o["questionId"].s = <<"p">>
    /\ LastEntry.out.answers[<<"p">>].Text = <<"T">>
    /\ LastEntry.out.answers[<<"q">>].SelectedOptions = <<>>

\* the positions of the letters and digits of a lowercased title
AlnumAt(lower) == {i \in 1..Len(lower) : IsAlnum(lower[i])}

\* where the letter or digit at position i of the title stands in the slug:
\* after the letters and digits before it and one hyphen per gap between them
SlugIndex(P, i) ==
    Cardinality({x \in P : x <= i})
    + Cardinality({x \in P : x <= i /\ x - 1 \notin P /\ \E y \in P : y < x})

\* the lowercased title with each run of other characters replaced by one
\* hyphen and the outer hyphens trimmed
HyphenatedAt(lower, P) ==
    IF P = {} THEN <<>>
    ELSE [j \in 1..SlugIndex(P, Max(P)) |->
             IF \E i \in P : SlugIndex(P, i) = j
             THEN lower[CHOOSE i \in P : SlugIndex(P, i) = j]
             ELSE "-"]

Hyphenated(title) == HyphenatedAt(ToLower(title), AlnumAt(ToLower(title)))

SlugOf(out, base) ==
    /\ \A i \in 1..Len(out) : out[i] \in LowerChars \cup DigitChars \cup {"-"}
    /\ \A i \in 1..(Len(out) - 1) : ~(out[i] = "-" /\ out[i + 1] = "-")
    /\ Len(out) >= MinSlugLen /\ Len(out) <= MaxSlugLen
    /\ (Len(base) >= MinSlugLen /\ Len(base) <= MaxSlugLen) => out = base
    /\ Len(base) < MinSlugLen => out = SurveyPrefix \o base
    /\ Len(base) > MaxSlugLen =>
          /\ out[Len(out)] # "-"
          /\ out = SubSeq(base, 1, Len(out))

\* C22: the slug of a title has only lowercase letters, digits and single
\* hyphens and 3 to 50 characters; it is the lowercased title with each run of
\* other characters replaced by one hyphen and outer hyphens trimmed when that
\* has 3 to 50 characters, that string after "survey-" when it is shorter, and
\* a beginning of it without trailing hyphen when it is longer
SlugShape ==
    Called("GenerateSlugFromTitle") => SlugOf(LastEntry.out, Hyphenated(LastEntry.input))

\* a title whose hyphenated form has a hyphen at position 50 was cut before it
CutAtHyphen ==
    /\ Called("GenerateSlugFromTitle")
    /\ Len(LastEntry.input) = MaxSlugLen + 1
    /\ LastEntry.input[MaxSlugLen] = "?"
    /\ LastEntry.input[MaxSlugLen + 1] = "b"
    /\ LastEntry.out = Filling(MaxSlugLen - 1)

\* C28: the slug of a title neither begins nor ends with a hyphen, the titles
\* with fewer than 3 letters and digits included
NoOuterHyphen ==
    Called("GenerateSlugFromTitle") =>
        /\ LastEntry.out # <<>>
        /\ LastEntry.out[1] # "-"
        /\ LastEntry.out[Len(LastEntry.out)] # "-"

\* C29: every question of a survey that ParseSurveyRecord decodes has a
\* non-empty type (and id and text), whatever type string passed the
\* required-field check, one ending with '#' included
DecodedTypeNonEmpty ==
    (Called("ParseSurveyRecord") /\ LastEntry.out.ok) =>
        \A i \in 1..Len(LastEntry.out.def.Questions) :
            /\ LastEntry.out.def.Questions[i].Type # <<>>
            /\ LastEntry.out.def.Questions[i].ID # <<>>
            /\ LastEntry.out.def.Questions[i].Text # <<>>

(***************************************************************************)
(* Properties of EnsureValidToken                                          *)
(***************************************************************************)
\* the call was made on a session whose token has no expiry or one more than
\* 5 minutes ahead
OnValidToken ==
    /\ Called("EnsureValidToken")
    /\ LastEntry.input.session # <<>>
    /\ \/ LastEntry.input.session[1].TokenExpiresAt = <<>>
       \/ LastEntry.input.session[1].TokenExpiresAt[1]
              > LastEntry.input.now + RefreshWindow

\* the call was made on a session whose token is expired or expires within
\* 5 minutes
OnExpiringToken ==
    /\ Called("EnsureValidToken")
    /\ LastEntry.input.session # <<>>
    /\ LastEntry.input.session[1].TokenExpiresAt # <<>>
    /\ LastEntry.input.session[1].TokenExpiresAt[1]
           <= LastEntry.input.now + RefreshWindow

\* C24: on a session whose TokenExpiresAt is nil or more than 5 minutes ahead
\* EnsureValidToken returns nil, makes no refresh request, does not touch the
\* storage (nil included) and leaves the session's tokens as they were,
\* whatever the other fields are
ValidTokenUntouched ==
    OnValidToken =>
        /\ LastEntry.out.err = ""
        /\ ~LastEntry.out.refreshed /\ ~LastEntry.out.updated
        /\ LastEntry.out.storage = LastEntry.input.storage
        /\ Tokens(LastEntry.out.session[1]) = Tokens(LastEntry.input.session[1])

\* a token expiring 6 minutes ahead, on a session without issuer and without
\* storage, was accepted
SixMinutesAhead ==
    /\ OnValidToken
    /\ LastEntry.input.session[1].TokenExpiresAt
           = <<LastEntry.input.now + RefreshWindow + 1>>
    /\ LastEntry.input.session[1].Issuer = ""
    /\ LastEntry.input.storage = <<>>
    /\ LastEntry.out.err = ""

\* the first of issuer, refresh token, DPoP key and storage that is missing
FirstMissing(s, storage) ==
    IF s.Issuer = "" THEN "issuer"
    ELSE IF s.RefreshToken = "" THEN "refresh token"
    ELSE IF s.DPoPKey = "" THEN "DPoP key"
    ELSE IF storage = <<>> THEN "storage"
    ELSE "none"

ErrorFor(item) ==
    CASE item = "issuer" -> "cannot refresh token: session missing issuer"
      [] item = "refresh token" -> "cannot refresh token: session missing refresh token"
      [] item = "DPoP key" -> "cannot refresh token: session missing DPoP key"
      [] item = "storage" -> "cannot refresh token: storage is nil"

\* C25: on an expired or expiring token EnsureValidToken makes no refresh
\* request unless issuer, refresh token, DPoP key and storage are all there;
\* it reports the first missing one, in that order, and leaves the session
\* unchanged; a nil session is an error
MissingItemReported ==
    /\ (Called("EnsureValidToken") /\ LastEntry.input.session = <<>>) =>
           LastEntry.out.err # "" /\ ~LastEntry.out.refreshed /\ ~LastEntry.out.updated
    /\ OnExpiringToken =>
           /\ LastEntry.out.refreshed =>
                  FirstMissing(LastEntry.input.session[1], LastEntry.input.storage) = "none"
           /\ FirstMissing(LastEntry.input.session[1], LastEntry.input.storage) # "none" =>
                  /\ LastEntry.out.err =
                         ErrorFor(FirstMissing(LastEntry.input.session[1],
                                               LastEntry.input.storage))
                  /\ LastEntry.out.session = LastEntry.input.session
                  /\ ~LastEntry.out.refreshed /\ ~LastEntry.out.updated

\* an expired session without DPoP key and without storage was refused for
\* its key
KeyBeforeStorage ==
    /\ OnExpiringToken
    /\ LastEntry.input.session[1].Issuer # ""
    /\ LastEntry.input.session[1].RefreshToken # ""
    /\ LastEntry.input.session[1].DPoPKey = ""
    /\ LastEntry.input.storage = <<>>
    /\ LastEntry.out.err = "cannot refresh token: session missing DPoP key"

\* C30: EnsureValidToken gives the session new tokens only when
\* UpdateSessionTokens succeeded with those values, so that a storage that
\* agreed with the session agrees with it afterwards, and on every error the
\* session is as it was
SessionAgreesWithStorage ==
    Called("EnsureValidToken") =>
        /\ LastEntry.out.err # "" => LastEntry.out.session = LastEntry.input.session
        /\ LastEntry.out.session # LastEntry.input.session =>
               /\ LastEntry.out.updated /\ LastEntry.input.update.ok
               /\ LastEntry.out.storage = <<Tokens(LastEntry.out.session[1])>>
        /\ (LastEntry.input.session # <<>> /\ LastEntry.input.storage # <<>>) =>
               LastEntry.out.storage = <<Tokens(LastEntry.out.session[1])>>

\* the refresh succeeded and the storage update failed
UpdateFailedAfterRefresh ==
    /\ OnExpiringToken
    /\ LastEntry.out.refreshed /\ LastEntry.out.updated
    /\ LastEntry.input.refresh.ok /\ ~LastEntry.input.update.ok
    /\ LastEntry.out.err = "failed to update session tokens"
    /\ LastEntry.out.session[1].AccessToken = "old-token"

====
